---- MODULE Spec2Model ----
(***************************************************************************)
(* The notification engine of app/notifications.py: Notifications.send,    *)
(* Notifications.get_notifications and Notifications.mark_read over the     *)
(* relational store (Notification, UserContentBlock, SubMod,               *)
(* SubPostComment, SubPostVote, SubPostCommentVote), the live socket and   *)
(* the push service.                                                       *)
(*                                                                         *)
(* Time is counted in retention periods: one unit of `now` is the          *)
(* timedelta(days=30) of mark_read, so `created < now - ExpiryPeriods` is  *)
(* the code's `created < utcnow() - timedelta(days=30)`.                   *)
(***************************************************************************)
EXTENDS Integers, Sequences, FiniteSets, TLC

VARIABLES
    notifications,  \* the Notification table: a set of rows
    nextId,         \* the next auto-increment Notification.id
    now,            \* datetime.utcnow()
    blocks,         \* the UserContentBlock table: rows [uid, target]
    mods,           \* the SubMod table: rows [user, sub, invite]
    commentStatus,  \* SubPostComment.status, by cid
    postVotes,      \* the SubPostVote table: rows [uid, pid, positive]
    commentVotes,   \* the SubPostCommentVote table: rows [uid, cid, positive]
    pushService,    \* Notifications.push_service is set (an FCM key was configured)
    call,           \* the last handler that ran, with its arguments
    emitted,        \* socketio.emit calls made by the last handler
    pushed,         \* push_service.topic_subscribers_data_message calls made by it
    raised,         \* the exception the last handler ended with, or "none"
    result,         \* the list the last get_notifications returned
    held,           \* a first page a client obtained from get_notifications and still holds
    suppressed,     \* ids of the rows whose send returned without dispatch, since the
                    \* block and moderator tables last changed
    looked,         \* User.get, Sub.get and SubPost.get calls made by the last handler
    listing         \* a get_notifications between its page query and its votes query

store == <<notifications, nextId>>
env == <<blocks, mods, commentStatus, postVotes, commentVotes, pushService>>
outputs == <<call, emitted, pushed, raised, result, looked>>
vars == <<notifications, nextId, now, blocks, mods, commentStatus, postVotes,
          commentVotes, pushService, call, emitted, pushed, raised, result, held,
          suppressed, looked, listing>>

(***************************************************************************)
(* Bounds of the model.                                                    *)
(***************************************************************************)
\* Notification rows ever created in one behaviour.
MaxNotifs == 2
\* The clock stops here.
MaxTime == 3
\* Rows per page; stands for the 50 of paginate(page, 50).
PageSize == 1

\* timedelta(days=30), in units of the clock.
ExpiryPeriods == 1

Null == "null"
\* A null timestamp (Notification.read of an unread row).
NullTime == 0 - 1

Users == {"u1", "u2"}
Subs == {"s1"}
Posts == {"p1"}
Comments == {"c1"}

\* The types get_notifications hides for a blocked sender and send composes a
\* push text for.
ReplyTypes == {"POST_REPLY", "COMMENT_REPLY", "POST_MENTION", "COMMENT_MENTION"}
\* A type send has no push text for.
OtherTypes == {"SUB_BAN"}
Types == ReplyTypes \cup OtherTypes

Ids == 1..MaxNotifs
Times == 0..MaxTime

NoArgs == [type |-> Null, target |-> Null, sender |-> Null, sub |-> Null,
           comment |-> Null, post |-> Null, content |-> Null]
\* again: the handler before it was the same call of mark_read.
NoCall == [op |-> "init", uid |-> Null, id |-> 0, page |-> 0, given |-> FALSE,
           notifs |-> {}, again |-> FALSE, args |-> NoArgs]
NotHeld == [uid |-> Null, ids |-> {}]
\* No get_notifications is between its two queries.
NotListing == [uid |-> Null, page |-> 0, keep |-> FALSE, rows |-> <<>>]

\* A create that stamps the row as read.
NewNotificationRead(notification_type, target, sender, sub, comment, post, content) ==
    [id |-> nextId, type |-> notification_type, target |-> target, sender |-> sender,
     sub |-> sub, comment |-> comment, post |-> post, content |-> content,
     created |-> now, read |-> now]

\* Notification.create(...): created defaults to utcnow(), read to null.
NewNotification(notification_type, target, sender, sub, comment, post, content) ==
    [id |-> nextId, type |-> notification_type, target |-> target, sender |-> sender,
     sub |-> sub, comment |-> comment, post |-> post, content |-> content,
     created |-> now, read |-> NullTime]

\* A join that leaves out `& ~SubMod.invite`.
AnyModRows(uid, sid) ==
    {m \in mods : m.user = uid /\ m.sub = sid}

\* send, lines 228-245: LEFT OUTER JOIN SubMod ON uid = the user AND sub = sub AND
\* NOT invite: the rows joined.
ActiveModRows(uid, sid) ==
    {m \in mods : m.user = uid /\ m.sub = sid /\ ~m.invite}

\* send, lines 223-254: the rows of the `ignore` query.  A null sender or sub
\* compares as IS NULL, which no UserContentBlock or SubMod row satisfies.
IgnoreRows(target, sender, sub) ==
    {b \in blocks : /\ b.target = sender
                    /\ b.uid = target
                    /\ ActiveModRows(b.uid, sub) = {}
                    /\ ActiveModRows(b.target, sub) = {}}

\* get_notification_count(target): the recipient's unread rows.
UnreadCount(rows, uid) ==
    Cardinality({n \in rows : n.target = uid /\ n.read = NullTime})

\* A lookup that treats a missing entity as a soft miss.
LookupSoftMiss(sender, sub, post) == FALSE

\* send, lines 267-274: User.get, Sub.get, SubPost.get of the non-null ids.
LookupFails(sender, sub, post) ==
    \/ sender # Null /\ sender \notin Users
    \/ sub # Null /\ sub \notin Subs
    \/ post # Null /\ post \notin Posts

\* send, lines 267-274: the gets made, in order, up to the first that raises.
Gets(sender, sub, post) ==
    LET u == IF sender # Null THEN <<[model |-> "User", id |-> sender]>> ELSE <<>>
        s == IF sub # Null THEN <<[model |-> "Sub", id |-> sub]>> ELSE <<>>
        p == IF post # Null THEN <<[model |-> "SubPost", id |-> post]>> ELSE <<>>
    IN  IF sender # Null /\ sender \notin Users THEN u
        ELSE IF sub # Null /\ sub \notin Subs THEN u \o s
        ELSE u \o s \o p

\* A composition that reads sub.name, sender.name and post.title for every type.
ComposeFailsAnyType(notification_type, sender, sub, post) ==
    sub = Null \/ sender = Null \/ post = Null

\* send, lines 280-312: a reply or mention text reads sub.name, sender.name and
\* post.title, an AttributeError on None.
ComposeFails(notification_type, sender, sub, post) ==
    /\ notification_type \in {"POST_REPLY", "COMMENT_REPLY", "POST_MENTION", "COMMENT_MENTION"}
    /\ (sub = Null \/ sender = Null \/ post = Null)

MessageTitle(notification_type, sub) ==
    CASE notification_type = "POST_REPLY" -> <<"Post reply in", sub>>
      [] notification_type = "COMMENT_REPLY" -> <<"Comment reply in", sub>>
      [] notification_type \in {"POST_MENTION", "COMMENT_MENTION"} ->
            <<"You were mentioned in", sub>>
      [] OTHER -> <<"New notification.">>

MessageBody(notification_type, sender, post) ==
    CASE notification_type = "POST_REPLY" -> <<"replied to your post", sender, post>>
      [] notification_type = "COMMENT_REPLY" -> <<"replied to your comment", sender, post>>
      [] notification_type \in {"POST_MENTION", "COMMENT_MENTION"} ->
            <<"mentioned you", sender, post>>
      [] OTHER -> <<"nobody bothered to code the message">>

\* send, lines 317-325.
NotificationData(notification_type, sender, sub, post, count) ==
    [type |-> "notification",
     title |-> MessageTitle(notification_type, sub),
     body |-> MessageBody(notification_type, sender, post),
     notificationCount |-> count]

\* A send that pushes whether or not a push service was configured.
PushAlwaysConfigured == TRUE

\* send, line 266: `if self.push_service:`.
PushConfigured == pushService

(***************************************************************************)
(* Notifications.send.  The store may refuse the INSERT, and either        *)
(* transport may raise; nothing in send catches these.                     *)
(***************************************************************************)
Send(notification_type, target, sender, sub, comment, post, content) ==
    LET row == NewNotification(notification_type, target, sender, sub,
                               comment, post, content)
        rows == notifications \cup {row}
        ignore == IgnoreRows(target, sender, sub)
        count == UnreadCount(rows, target)
        event == [event |-> "notification", count |-> count,
                  namespace |-> "/snt", room |-> <<"user", target>>]
        message == [topic_name |-> target,
                    data_message |->
                        NotificationData(notification_type, sender, sub, post, count)]
    IN  /\ nextId <= MaxNotifs
        /\ call' = [NoCall EXCEPT !.op = "Send", !.uid = target, !.id = nextId,
                        !.args = [type |-> notification_type, target |-> target,
                                  sender |-> sender, sub |-> sub, comment |-> comment,
                                  post |-> post, content |-> content]]
        /\ result' = <<>>
        /\ UNCHANGED <<now, env, held, listing>>
        /\ \E storeOk \in BOOLEAN :
            IF ~storeOk
            THEN \* lines 213-221: Notification.create raises
                 /\ UNCHANGED <<store, suppressed>>
                 /\ emitted' = <<>>
                 /\ pushed' = <<>>
                 /\ looked' = <<>>
                 /\ raised' = "StoreError"
            ELSE /\ notifications' = rows
                 /\ nextId' = nextId + 1
                 /\ suppressed' = IF ignore # {} THEN suppressed \cup {nextId}
                                   ELSE suppressed
                 /\ IF ignore # {}
                    THEN \* lines 256-257
                         /\ emitted' = <<>>
                         /\ pushed' = <<>>
                         /\ looked' = <<>>
                         /\ raised' = "none"
                    ELSE \* lines 259-265
                         /\ emitted' = <<event>>
                         /\ \E socketOk \in BOOLEAN :
                             IF ~socketOk
                             THEN pushed' = <<>> /\ looked' = <<>> /\ raised' = "SocketError"
                             ELSE IF ~PushConfigured
                             THEN pushed' = <<>> /\ looked' = <<>> /\ raised' = "none"
                             ELSE \* lines 267-274
                                  /\ looked' = Gets(sender, sub, post)
                                  /\ IF LookupFails(sender, sub, post)
                                     THEN pushed' = <<>> /\ raised' = "DoesNotExist"
                                     ELSE IF ComposeFails(notification_type, sender, sub, post)
                                     THEN pushed' = <<>> /\ raised' = "AttributeError"
                                     ELSE \* lines 326-328
                                          /\ pushed' = <<message>>
                                          /\ \E pushOk \in BOOLEAN :
                                              raised' = IF pushOk THEN "none"
                                                        ELSE "PushError"

(***************************************************************************)
(* The rest of the application, as far as it writes the tables send and    *)
(* get_notifications read.                                                 *)
(***************************************************************************)
Quiet ==
    /\ emitted' = <<>>
    /\ pushed' = <<>>
    /\ raised' = "none"
    /\ result' = <<>>
    /\ looked' = <<>>

Block(uid, target) ==
    /\ [uid |-> uid, target |-> target] \notin blocks
    /\ blocks' = blocks \cup {[uid |-> uid, target |-> target]}
    /\ call' = [NoCall EXCEPT !.op = "Block", !.uid = uid]
    /\ suppressed' = {}
    /\ Quiet
    /\ UNCHANGED <<store, now, held, listing, mods, commentStatus, postVotes, commentVotes,
                   pushService>>

Unblock(uid, target) ==
    /\ [uid |-> uid, target |-> target] \in blocks
    /\ blocks' = blocks \ {[uid |-> uid, target |-> target]}
    /\ call' = [NoCall EXCEPT !.op = "Unblock", !.uid = uid]
    /\ suppressed' = {}
    /\ Quiet
    /\ UNCHANGED <<store, now, held, listing, mods, commentStatus, postVotes, commentVotes,
                   pushService>>

\* A SubMod row is created as an invite or as an active moderator; a user has at
\* most one row per sub.
AddMod(user, sub, invite) ==
    /\ \A m \in mods : ~(m.user = user /\ m.sub = sub)
    /\ mods' = mods \cup {[user |-> user, sub |-> sub, invite |-> invite]}
    /\ call' = [NoCall EXCEPT !.op = "AddMod", !.uid = user]
    /\ suppressed' = {}
    /\ Quiet
    /\ UNCHANGED <<store, now, held, listing, blocks, commentStatus, postVotes, commentVotes,
                   pushService>>

RemoveMod(user, sub) ==
    /\ \E m \in mods : m.user = user /\ m.sub = sub
    /\ mods' = {m \in mods : ~(m.user = user /\ m.sub = sub)}
    /\ call' = [NoCall EXCEPT !.op = "RemoveMod", !.uid = user]
    /\ suppressed' = {}
    /\ Quiet
    /\ UNCHANGED <<store, now, held, listing, blocks, commentStatus, postVotes, commentVotes,
                   pushService>>

\* A comment is soft-deleted: its status becomes non-null.
DeleteComment(cid) ==
    /\ commentStatus[cid] = Null
    /\ commentStatus' = [commentStatus EXCEPT ![cid] = "deleted"]
    /\ call' = [NoCall EXCEPT !.op = "DeleteComment"]
    /\ Quiet
    /\ UNCHANGED <<store, now, held, listing, blocks, mods, postVotes, commentVotes,
                   pushService, suppressed>>

\* The values of the column `positive` of a vote, next to the null of no vote.
Directions == {"True", "False"}

\* A user votes on a post, or changes the vote: one SubPostVote row per user and
\* post.
VotePost(uid, pid, positive) ==
    /\ [uid |-> uid, pid |-> pid, positive |-> positive] \notin postVotes
    /\ postVotes' = {v \in postVotes : ~(v.uid = uid /\ v.pid = pid)}
                        \cup {[uid |-> uid, pid |-> pid, positive |-> positive]}
    /\ call' = [NoCall EXCEPT !.op = "VotePost", !.uid = uid]
    /\ Quiet
    /\ UNCHANGED <<store, now, held, listing, blocks, mods, commentStatus, commentVotes,
                   pushService, suppressed>>

\* A user votes on a comment, or changes the vote: one SubPostCommentVote row per
\* user and comment.
VoteComment(uid, cid, positive) ==
    /\ [uid |-> uid, cid |-> cid, positive |-> positive] \notin commentVotes
    /\ commentVotes' = {v \in commentVotes : ~(v.uid = uid /\ v.cid = cid)}
                            \cup {[uid |-> uid, cid |-> cid, positive |-> positive]}
    /\ call' = [NoCall EXCEPT !.op = "VoteComment", !.uid = uid]
    /\ Quiet
    /\ UNCHANGED <<store, now, held, listing, blocks, mods, commentStatus, postVotes,
                   pushService, suppressed>>

\* Time passes between two handlers.
Tick ==
    /\ now < MaxTime
    /\ now' = now + 1
    /\ UNCHANGED <<store, env, outputs, held, suppressed, listing>>

(***************************************************************************)
(* Notifications.get_notifications.                                        *)
(***************************************************************************)
\* An inner join of SubPostComment: a row with no comment is dropped.
CommentStatusInnerJoin(n) ==
    /\ n.comment \in DOMAIN commentStatus
    /\ commentStatus[n.comment] = Null

\* lines 75 and 119: LEFT OUTER JOIN SubPostComment, status IS NULL.  A row with
\* no comment joined has a null status.
CommentStatusIsNull(n) ==
    \/ n.comment \notin DOMAIN commentStatus
    \/ commentStatus[n.comment] = Null

\* line 85: LEFT OUTER JOIN User ON Notification.sender = User.uid.
SenderUser(n) == IF n.sender \in Users THEN n.sender ELSE Null

\* A join on the edge in the other direction.
ContentBlockRowsReversed(uid, n) ==
    {b \in blocks : b.target = uid /\ b.uid = SenderUser(n)}

\* lines 86-93: LEFT OUTER JOIN UserContentBlock ON uid = viewer AND target = User.uid.
ContentBlockRows(uid, n) ==
    {b \in blocks : b.uid = uid /\ b.target = SenderUser(n)}

\* lines 94-102: LEFT OUTER JOIN SubMod ON user = User.uid AND sub = Notification.sub
\* AND NOT invite.
SubModRows(n) ==
    {m \in mods : m.user = SenderUser(n) /\ m.sub = n.sub /\ ~m.invite}

\* A join for the viewer that leaves out `& ~SubModCurrentUser.invite`.
SubModCurrentUserRowsInvited(uid, n) ==
    {m \in mods : m.user = uid /\ m.sub = n.sub}

\* lines 103-111: the same join for the viewer.
SubModCurrentUserRows(uid, n) ==
    {m \in mods : m.user = uid /\ m.sub = n.sub /\ ~m.invite}

\* lines 123-129.
HiddenTypes == {"POST_REPLY", "COMMENT_REPLY", "POST_MENTION", "COMMENT_MENTION"}

\* A WHERE clause without the viewer's own moderator override.
WhereNoViewerOverride(uid, n) ==
    /\ n.target = uid
    /\ CommentStatusIsNull(n)
    /\ \/ ContentBlockRows(uid, n) = {}
       \/ ~(n.type \in HiddenTypes)
       \/ SubModRows(n) # {}

\* lines 117-134: the WHERE clause.
Where(uid, n) ==
    /\ n.target = uid
    /\ CommentStatusIsNull(n)
    /\ \/ ContentBlockRows(uid, n) = {}
       \/ ~(n.type \in HiddenTypes)
       \/ SubModRows(n) # {}
       \/ SubModCurrentUserRows(uid, n) # {}

Selected(uid) == {n \in notifications : Where(uid, n)}

\* line 135: ORDER BY created DESC.  The store may return rows of equal created
\* in any order.
Orderings(rows) ==
    {s \in [1..Cardinality(rows) -> rows] :
        /\ \A i, j \in 1..Cardinality(rows) : i # j => s[i] # s[j]
        /\ \A i, j \in 1..Cardinality(rows) : i < j => s[i].created >= s[j].created}

\* A paginate that answers a page past the end with the first page.
PaginateWraps(s, page) ==
    LET offset == IF (page - 1) * PageSize >= Len(s) THEN 0 ELSE (page - 1) * PageSize
        n == IF Len(s) - offset > PageSize THEN PageSize ELSE Len(s) - offset
    IN  [i \in 1..n |-> s[offset + i]]

\* line 136: paginate(page, 50), LIMIT PageSize OFFSET (page - 1) * PageSize.
Paginate(s, page) ==
    LET offset == (page - 1) * PageSize
        n == IF Len(s) - offset > PageSize THEN PageSize
             ELSE IF Len(s) - offset < 0 THEN 0 ELSE Len(s) - offset
    IN  [i \in 1..n |-> s[offset + i]]

\* A join of SubPostVote that leaves out `SubPostVote.uid == uid`.
PostPositiveAnyUser(uid, n) ==
    LET vs == {v \in postVotes : v.pid = n.post /\ n.post \in Posts}
    IN  IF vs = {} THEN Null ELSE (CHOOSE v \in vs : TRUE).positive

\* lines 150-155: the viewer's SubPostVote on the row's post.
PostPositive(uid, n) ==
    LET vs == {v \in postVotes : v.uid = uid /\ v.pid = n.post /\ n.post \in Posts}
    IN  IF vs = {} THEN Null ELSE (CHOOSE v \in vs : TRUE).positive

\* lines 157-165: the viewer's SubPostCommentVote on the row's comment.
CommentPositive(uid, n) ==
    LET vs == {v \in commentVotes :
                  v.uid = uid /\ v.cid = n.comment /\ n.comment \in DOMAIN commentStatus}
    IN  IF vs = {} THEN Null ELSE (CHOOSE v \in vs : TRUE).positive

\* The ids of the rows of a page.
PageIds(s) == {s[i].id : i \in 1..Len(s)}

\* lines 144-168: the votes query over the rows the table holds now whose id is
\* in ids, keyed by id.  An empty ids selects nothing (peewee writes an empty IN
\* as `0 = 1`).
VotesById(uid, ids) ==
    [id \in {n.id : n \in {m \in notifications : m.id \in ids}} |->
        LET n == CHOOSE m \in notifications : m.id = id
        IN  [id |-> id,
             comment_positive |-> CommentPositive(uid, n),
             post_positive |-> PostPositive(uid, n)]]

\* lines 169-171: votes_by_id[n["id"]] is a KeyError for an id the votes query
\* did not return.
MergeFails(s, votes) == \E i \in 1..Len(s) : s[i].id \notin DOMAIN votes

\* lines 169-172: the rows of the page, each with its votes merged in.
Merged(s, votes) ==
    [i \in 1..Len(s) |->
        [id |-> s[i].id, read |-> s[i].read,
         comment_positive |-> votes[s[i].id].comment_positive,
         post_positive |-> votes[s[i].id].post_positive]]

\* lines 139-172: the page as returned when nothing writes the table between the
\* two queries.
Enriched(uid, s) == Merged(s, VotesById(uid, PageIds(s)))

ResultIds(r) == {r[i].id : i \in 1..Len(r)}

\* lines 144-172: the votes query and the merge, for the page the first query
\* returned.  keep: the client holds on to this first page to hand it to
\* mark_read later.
FinishList(uid, page, keep, s) ==
    LET votes == VotesById(uid, PageIds(s))
    IN  /\ IF MergeFails(s, votes)
           THEN /\ result' = <<>>
                /\ raised' = "KeyError"
                /\ held' = held
           ELSE /\ result' = Merged(s, votes)
                /\ raised' = "none"
                /\ held' = IF keep /\ page = 1
                           THEN [uid |-> uid, ids |-> PageIds(s)]
                           ELSE held
        /\ call' = [NoCall EXCEPT !.op = "List", !.uid = uid, !.page = page]
        /\ emitted' = <<>>
        /\ pushed' = <<>>
        /\ looked' = <<>>
        /\ UNCHANGED <<store, now, env, suppressed>>

\* get_notifications with no other worker between its two queries.
List(uid, page, keep) ==
    \E s \in Orderings(Selected(uid)) :
        /\ FinishList(uid, page, keep, Paginate(s, page))
        /\ UNCHANGED listing

\* lines 42-139: get_notifications up to list(notifications), the page query.
ListQuery(uid, page, keep) ==
    /\ listing = NotListing
    /\ \E s \in Orderings(Selected(uid)) :
        listing' = [uid |-> uid, page |-> page, keep |-> keep,
                    rows |-> Paginate(s, page)]
    /\ UNCHANGED <<store, now, env, outputs, held, suppressed>>

\* lines 144-172: the rest of that get_notifications.
ListVotes ==
    /\ listing # NotListing
    /\ FinishList(listing.uid, listing.page, listing.keep, listing.rows)
    /\ listing' = NotListing

(***************************************************************************)
(* Notifications.mark_read.  given: notifs was passed; ids: the ids of the *)
(* rows in it.                                                             *)
(***************************************************************************)
\* A prune that also takes the rows exactly one retention period old.
ExpiredInclusive(uid, given, ids) ==
    IF given /\ ids # {}
    THEN {n \in notifications :
            /\ n.target = uid
            /\ n.created <= now - ExpiryPeriods
            /\ ~(n.id \in ids)}
    ELSE {}

\* lines 176-184: `if notifs:` is false of None and of an empty list.
Expired(uid, given, ids) ==
    IF given /\ ids # {}
    THEN {n \in notifications :
            /\ n.target = uid
            /\ n.created < now - ExpiryPeriods
            /\ ~(n.id \in ids)}
    ELSE {}

\* An update without `Notification.target == uid`.
ReadUpdateAnyTarget(rows, uid) ==
    {IF n.read = NullTime THEN [n EXCEPT !.read = now] ELSE n : n \in rows}

\* An update without `Notification.read.is_null(True)`.
ReadUpdateRewrites(rows, uid) ==
    {IF n.target = uid THEN [n EXCEPT !.read = now] ELSE n : n \in rows}

\* An update that also sets created.
ReadUpdateTouchesCreated(rows, uid) ==
    {IF n.read = NullTime /\ n.target = uid
     THEN [n EXCEPT !.read = now, !.created = now] ELSE n : n \in rows}

\* lines 185-187.
ReadUpdate(rows, uid) ==
    {IF n.read = NullTime /\ n.target = uid THEN [n EXCEPT !.read = now] ELSE n :
        n \in rows}

MarkRead(uid, given, ids) ==
    /\ notifications' = ReadUpdate(notifications \ Expired(uid, given, ids), uid)
    /\ call' = [NoCall EXCEPT !.op = "MarkRead", !.uid = uid, !.given = given,
                              !.notifs = ids,
                              !.again = (call.op = "MarkRead" /\ call.uid = uid
                                         /\ call.given = given /\ call.notifs = ids)]
    /\ Quiet
    /\ UNCHANGED <<nextId, now, env, held, suppressed, listing>>

(***************************************************************************)
(* Specifications.  Each draws the arguments of send from a set of calls   *)
(* and starts from tables the application can have written.                *)
(***************************************************************************)
SendCall(a) ==
    Send(a.type, a.target, a.sender, a.sub, a.comment, a.post, a.content)

\* The other user of the two.
Other(u) == IF u = "u1" THEN "u2" ELSE "u1"

\* Calls that differ in what the block check and the push text read.
DispatchCalls ==
    [type : {"POST_REPLY", "SUB_BAN"}, target : {"u2"}, sender : {Null, "u1"},
     sub : {Null, "s1"}, comment : {Null}, post : {"p1"}, content : {Null}]

\* One call of every type.
TypeCalls ==
    [type : Types, target : {"u2"}, sender : {"u1"}, sub : {"s1"},
     comment : {"c1"}, post : {"p1"}, content : {"txt"}]

\* Calls that differ in the remaining columns.
FieldCalls ==
    {[type |-> "COMMENT_REPLY", target |-> "u1", sender |-> "u2", sub |-> "s1",
      comment |-> "c1", post |-> Null, content |-> Null]}

SendCalls == DispatchCalls \cup TypeCalls \cup FieldCalls

EmptyOutputs ==
    /\ call = NoCall
    /\ emitted = <<>>
    /\ pushed = <<>>
    /\ raised = "none"
    /\ result = <<>>
    /\ held = NotHeld
    /\ suppressed = {}
    /\ looked = <<>>
    /\ listing = NotListing

Pages == 1..2

\* Calls that differ in what the WHERE clause of get_notifications reads.
VisibilityCalls ==
    {[type |-> "POST_REPLY", target |-> "u2", sender |-> "u1", sub |-> "s1",
      comment |-> Null, post |-> "p1", content |-> Null],
     [type |-> "COMMENT_REPLY", target |-> "u2", sender |-> "u1", sub |-> "s1",
      comment |-> "c1", post |-> "p1", content |-> Null],
     [type |-> "POST_MENTION", target |-> "u2", sender |-> "u1", sub |-> Null,
      comment |-> Null, post |-> "p1", content |-> Null],
     [type |-> "COMMENT_MENTION", target |-> "u2", sender |-> "u1", sub |-> "s1",
      comment |-> Null, post |-> "p1", content |-> Null],
     [type |-> "SUB_BAN", target |-> "u2", sender |-> "u1", sub |-> "s1",
      comment |-> Null, post |-> Null, content |-> "txt"],
     [type |-> "POST_REPLY", target |-> "u2", sender |-> Null, sub |-> "s1",
      comment |-> Null, post |-> "p1", content |-> Null],
     [type |-> "COMMENT_REPLY", target |-> "u1", sender |-> "u2", sub |-> "s1",
      comment |-> "c1", post |-> "p1", content |-> Null]}

TablesEmpty ==
    /\ notifications = {}
    /\ nextId = 1
    /\ now = 0
    /\ blocks = {}
    /\ mods = {}
    /\ commentStatus = [c \in Comments |-> Null]
    /\ postVotes = {}
    /\ commentVotes = {}

\* Delivery and visibility: send and get_notifications while users block and
\* unblock each other, moderators come and go and comments are deleted.
Init ==
    /\ TablesEmpty
    /\ pushService = FALSE
    /\ EmptyOutputs

Next ==
    \/ \E a \in VisibilityCalls : SendCall(a)
    \/ \E uid \in Users, page \in Pages : List(uid, page, FALSE)
    \/ \E uid \in Users : Block(uid, Other(uid))
    \/ \E uid \in Users : Unblock(uid, Other(uid))
    \/ \E user \in Users, sub \in Subs, invite \in BOOLEAN : AddMod(user, sub, invite)
    \/ \E user \in Users, sub \in Subs : RemoveMod(user, sub)
    \/ \E cid \in Comments : DeleteComment(cid)

Spec == Init /\ [][Next]_vars

\* The tables the block check of send reads, in every state they can be in.
BlockTables == SUBSET {b \in [uid : Users, target : Users] : b.uid # b.target}
ModTables ==
    {ms \in SUBSET [user : Users, sub : Subs, invite : BOOLEAN] :
        \A m1, m2 \in ms : (m1.user = m2.user /\ m1.sub = m2.sub) => m1 = m2}

\* send alone, with and without a push service, over every state of the block
\* and moderator tables.
InitSend ==
    /\ notifications = {}
    /\ nextId = 1
    /\ now = 0
    /\ blocks \in BlockTables
    /\ mods \in ModTables
    /\ commentStatus = [c \in Comments |-> Null]
    /\ postVotes = {}
    /\ commentVotes = {}
    /\ pushService \in BOOLEAN
    /\ EmptyOutputs

NextSend ==
    \E a \in SendCalls : SendCall(a)

SpecSend == InitSend /\ [][NextSend]_vars

\* Calls to both users.
StoreCalls ==
    {[type |-> "POST_REPLY", target |-> "u2", sender |-> "u1", sub |-> "s1",
      comment |-> Null, post |-> "p1", content |-> Null],
     [type |-> "SUB_BAN", target |-> "u1", sender |-> Null, sub |-> Null,
      comment |-> Null, post |-> Null, content |-> "txt"]}

\* What a client can pass to mark_read as notifs: nothing, or rows with any ids.
MarkReadCalls ==
    {[given |-> FALSE, ids |-> {}]} \cup [given : {TRUE}, ids : SUBSET Ids]

\* The life of a row: send, get_notifications and mark_read as time passes.
InitStore ==
    /\ TablesEmpty
    /\ pushService = FALSE
    /\ EmptyOutputs

NextStore ==
    \/ \E a \in StoreCalls : SendCall(a)
    \/ \E uid \in Users, page \in Pages : List(uid, page, FALSE)
    \/ \E uid \in Users, m \in MarkReadCalls : MarkRead(uid, m.given, m.ids)
    \/ Tick

SpecStore == InitStore /\ [][NextStore]_vars

\* Calls to one user, from a user it can block and from the system.
SessionCalls ==
    {[type |-> "POST_REPLY", target |-> "u2", sender |-> "u1", sub |-> "s1",
      comment |-> Null, post |-> "p1", content |-> Null],
     [type |-> "SUB_BAN", target |-> "u2", sender |-> Null, sub |-> Null,
      comment |-> Null, post |-> Null, content |-> "txt"]}

\* A client session: the first page is listed and later handed to mark_read,
\* while notifications arrive and the viewer blocks and unblocks the sender.
NextSession ==
    \/ \E a \in SessionCalls : SendCall(a)
    \/ List("u2", 1, TRUE)
    \/ held.uid # Null /\ MarkRead(held.uid, TRUE, held.ids)
    \/ Block("u2", "u1")
    \/ Unblock("u2", "u1")
    \/ Tick

SpecSession == InitStore /\ [][NextSession]_vars

\* Calls that differ in what the composition of the push text reads: a type
\* with no text of its own with every combination of null and existing sender,
\* sub and post, replies and mentions with one of them null, calls with an id
\* that resolves to nothing, and a reply with all three.
PushCalls ==
    [type : {"SUB_BAN"}, target : {"u2"}, sender : {Null, "u1"}, sub : {Null, "s1"},
     comment : {Null}, post : {Null, "p1"}, content : {Null}]
    \cup
    {[type |-> "POST_REPLY", target |-> "u2", sender |-> Null, sub |-> "s1",
      comment |-> Null, post |-> "p1", content |-> Null],
     [type |-> "COMMENT_REPLY", target |-> "u2", sender |-> "u1", sub |-> Null,
      comment |-> Null, post |-> "p1", content |-> Null],
     [type |-> "POST_MENTION", target |-> "u2", sender |-> "u1", sub |-> "s1",
      comment |-> Null, post |-> Null, content |-> Null],
     [type |-> "POST_REPLY", target |-> "u2", sender |-> "u0", sub |-> "s1",
      comment |-> Null, post |-> "p1", content |-> Null],
     [type |-> "SUB_BAN", target |-> "u2", sender |-> "u1", sub |-> "s0",
      comment |-> Null, post |-> "p1", content |-> Null],
     [type |-> "COMMENT_MENTION", target |-> "u2", sender |-> "u1", sub |-> "s1",
      comment |-> Null, post |-> "p0", content |-> Null],
     [type |-> "POST_REPLY", target |-> "u2", sender |-> "u1", sub |-> "s1",
      comment |-> Null, post |-> "p1", content |-> Null]}

\* send composing push texts, with the recipient blocking the sender or not.
InitPush ==
    /\ notifications = {}
    /\ nextId = 1
    /\ now = 0
    /\ blocks \in {{}, {[uid |-> "u2", target |-> "u1"]}}
    /\ mods = {}
    /\ commentStatus = [c \in Comments |-> Null]
    /\ postVotes = {}
    /\ commentVotes = {}
    /\ pushService \in BOOLEAN
    /\ EmptyOutputs

NextPush ==
    \E a \in PushCalls : SendCall(a)

SpecPush == InitPush /\ [][NextPush]_vars

\* Calls that differ in the post and comment the votes query joins: both, a
\* post alone, neither, and a row of the other user.
VoteCalls ==
    {[type |-> "COMMENT_REPLY", target |-> "u2", sender |-> "u1", sub |-> "s1",
      comment |-> "c1", post |-> "p1", content |-> Null],
     [type |-> "POST_REPLY", target |-> "u2", sender |-> "u1", sub |-> "s1",
      comment |-> Null, post |-> "p1", content |-> Null],
     [type |-> "SUB_BAN", target |-> "u2", sender |-> Null, sub |-> "s1",
      comment |-> Null, post |-> Null, content |-> "txt"],
     [type |-> "POST_REPLY", target |-> "u1", sender |-> "u2", sub |-> "s1",
      comment |-> Null, post |-> "p1", content |-> Null]}

\* send and get_notifications while users vote on posts and comments.
NextVotes ==
    \/ \E a \in VoteCalls : SendCall(a)
    \/ \E uid \in Users, page \in Pages : List(uid, page, FALSE)
    \/ \E uid \in Users, pid \in Posts, positive \in Directions :
            VotePost(uid, pid, positive)
    \/ \E uid \in Users, cid \in Comments, positive \in Directions :
            VoteComment(uid, cid, positive)

SpecVotes == InitStore /\ [][NextVotes]_vars

\* Concurrent workers serving one user: a get_notifications runs its two
\* queries as two steps, and between them other workers run send and
\* mark_read, the latter with a first page a get_notifications returned.  The
\* clock, which counts periods of 30 days, does not advance during a
\* get_notifications.
NextWorkers ==
    \/ \E a \in SessionCalls : SendCall(a)
    \/ \E page \in Pages : ListQuery("u2", page, TRUE)
    \/ ListVotes
    \/ held.uid # Null /\ MarkRead(held.uid, TRUE, held.ids)
    \/ listing = NotListing /\ Tick

SpecWorkers == InitStore /\ [][NextWorkers]_vars

(***************************************************************************)
(* Properties.                                                             *)
(***************************************************************************)
\* u holds a non-invite SubMod row on sub.
ActiveModerator(u, sub) ==
    \E m \in mods : m.user = u /\ m.sub = sub /\ m.invite = FALSE

\* target blocks sender, and neither is an active moderator of sub.
BlockApplies(target, sender, sub) ==
    /\ [uid |-> target, target |-> sender] \in blocks
    /\ ~ActiveModerator(sender, sub)
    /\ ~ActiveModerator(target, sub)

SendReturned == call.op = "Send" /\ raised # "StoreError"

\* C1: every send whose INSERT the store accepts adds exactly one new row, unread
\* and with the fields given, whether or not the block check then suppresses
\* delivery.
C1_SendPersistsRow ==
    [][(call'.op = "Send" /\ raised' # "StoreError") =>
        \E row \in notifications' :
            /\ notifications' = notifications \cup {row}
            /\ \A n \in notifications : n.id # row.id
            /\ row.read = NullTime
            /\ row.created = now
            /\ [type |-> row.type, target |-> row.target, sender |-> row.sender,
                sub |-> row.sub, comment |-> row.comment, post |-> row.post,
                content |-> row.content] = call'.args]_vars

\* A send the block check suppressed, its row in the table and unread.
C1_Witness ==
    /\ SendReturned
    /\ BlockApplies(call.args.target, call.args.sender, call.args.sub)
    /\ emitted = <<>>
    /\ \E row \in notifications : row.id = call.id /\ row.read = NullTime

\* C2, as amended: send publishes the live-socket event exactly when the block
\* does not apply (target blocks sender and neither is an active moderator of
\* sub); it hands a push message to the push service exactly when, besides, a
\* push service is configured and send did not fail before the hand-off (the
\* socket publish or the composition of the push text raised).  A null sender is
\* never blocked, and an invite-only SubMod row does not lift the block.
C2_DispatchUnlessBlocked ==
    [][(call'.op = "Send" /\ raised' # "StoreError") =>
        LET a == call'.args
            blocked == BlockApplies(a.target, a.sender, a.sub)
        IN  /\ (emitted' # <<>>) <=> ~blocked
            /\ (pushed' # <<>>) <=>
                    (~blocked /\ pushService /\ raised' \in {"none", "PushError"})
            /\ a.sender = Null => emitted' # <<>>
            /\ ([uid |-> a.target, target |-> a.sender] \in blocks
                    /\ \A m \in mods : m.sub = a.sub => m.invite)
                => (emitted' = <<>> /\ pushed' = <<>>)]_vars

\* A blocked send not dispatched although the sender holds an invite to the sub.
C2_Witness ==
    /\ SendReturned
    /\ pushService
    /\ [uid |-> call.args.target, target |-> call.args.sender] \in blocks
    /\ \E m \in mods : m.user = call.args.sender /\ m.sub = call.args.sub /\ m.invite
    /\ emitted = <<>>
    /\ pushed = <<>>

\* C2, as stated: with the transports up, send publishes the live-socket event
\* and, if a push service is configured, the push message if and only if the
\* block does not apply.
C2_Original ==
    [][(call'.op = "Send" /\ raised' \notin {"StoreError", "SocketError", "PushError"}) =>
        LET a == call'.args
            dispatched == emitted' # <<>> /\ (pushService => pushed' # <<>>)
        IN  dispatched <=> ~BlockApplies(a.target, a.sender, a.sub)]_vars

\* The related comment of n is soft-deleted.
SoftDeleted(n) == n.comment # Null /\ commentStatus[n.comment] # Null

\* n is hidden from uid by blocking.
HiddenByBlocking(uid, n) ==
    /\ n.type \in ReplyTypes
    /\ n.sender # Null
    /\ BlockApplies(uid, n.sender, n.sub)

\* The rows of uid neither soft-deleted nor hidden by blocking.
Shown(uid) ==
    {n \in notifications :
        n.target = uid /\ ~SoftDeleted(n) /\ ~HiddenByBlocking(uid, n)}

\* n is on that page of uid's list in whatever order rows of equal created come.
SurelyOnPage(uid, n, page) ==
    /\ n \in Shown(uid)
    /\ Cardinality({m \in Shown(uid) : m.created > n.created}) >= (page - 1) * PageSize
    /\ Cardinality({m \in Shown(uid) \ {n} : m.created >= n.created}) < page * PageSize

\* C3: get_notifications(uid, page) leaves out a row of uid for blocking exactly
\* when its type is a reply or mention type, uid blocks its sender and neither
\* is an active moderator of its sub; a row of another type or with a null
\* sender is listed on the page its creation time puts it on.
C3_HiddenExactlyWhenBlocked ==
    call.op = "List" =>
        \A n \in notifications :
            (n.target = call.uid /\ ~SoftDeleted(n)) =>
                /\ HiddenByBlocking(call.uid, n) => n.id \notin ResultIds(result)
                /\ (~HiddenByBlocking(call.uid, n) /\ SurelyOnPage(call.uid, n, call.page))
                        => n.id \in ResultIds(result)

\* A list that leaves out a reply of a blocked sender and shows a row of another
\* type from the same sender.
C3_Witness ==
    /\ call.op = "List"
    /\ \E n \in notifications :
        n.target = call.uid /\ HiddenByBlocking(call.uid, n) /\ ~SoftDeleted(n)
    /\ \E n \in notifications :
        /\ n.id \in ResultIds(result)
        /\ n.type \notin ReplyTypes
        /\ BlockApplies(call.uid, n.sender, n.sub)

\* C4, as amended: a row of a reply or mention type whose send was suppressed by
\* the block check is on no page of the target's list while the block and
\* moderator tables are unchanged.
C4_SuppressedReplyInvisible ==
    call.op = "List" =>
        \A n \in notifications :
            (n.id \in suppressed /\ n.target = call.uid /\ n.type \in ReplyTypes)
                => n.id \notin ResultIds(result)

\* A suppressed reply left out of a first page that has room for it.
C4_Witness ==
    /\ call.op = "List"
    /\ call.page = 1
    /\ Len(result) < PageSize
    /\ \E n \in notifications :
        n.id \in suppressed /\ n.target = call.uid /\ n.type \in ReplyTypes

\* C4, as stated: the same of every type send accepts.
C4_Original ==
    call.op = "List" =>
        \A n \in notifications :
            (n.id \in suppressed /\ n.target = call.uid)
                => n.id \notin ResultIds(result)

RowIds(rows) == {n.id : n \in rows}

\* The rows a step of mark_read deletes.
Deleted == {n \in notifications : n.id \notin RowIds(notifications')}

\* n was created more than 30 days before now.
OlderThanExpiry(n) == now - n.created > ExpiryPeriods

\* C5: after mark_read(uid, notifs), with or without notifs, no row of uid left
\* in the table is unread; the rows of other users are as they were, and a row
\* that was read before keeps its read timestamp.
C5_MarkReadLeavesNoUnread ==
    [][call'.op = "MarkRead" =>
        /\ \A n \in notifications' : n.target = call'.uid => n.read # NullTime
        /\ {n \in notifications' : n.target # call'.uid}
                = {n \in notifications : n.target # call'.uid}
        /\ \A n \in notifications :
            (n.target = call'.uid /\ n.read # NullTime /\ n \notin Deleted)
                => n \in notifications']_vars

\* mark_read has marked a row of uid while another user's row stays unread.
C5_Witness ==
    /\ call.op = "MarkRead"
    /\ \E n \in notifications : n.target = call.uid /\ n.read # NullTime
    /\ \E n \in notifications : n.target # call.uid /\ n.read = NullTime

\* C6: mark_read(uid) called again right after mark_read(uid) changes no row, and
\* the unread count of uid is 0 after the first call and after the second.
C6_MarkReadIdempotent ==
    [][(call'.op = "MarkRead" /\ call'.again /\ ~call'.given) =>
        /\ notifications' = notifications
        /\ UnreadCount(notifications, call'.uid) = 0
        /\ UnreadCount(notifications', call'.uid) = 0]_vars

\* The second of two consecutive mark_read(uid), run later than the read
\* timestamp the first one set.
C6_Witness ==
    /\ call.op = "MarkRead"
    /\ call.again
    /\ ~call.given
    /\ \E n \in notifications :
        n.target = call.uid /\ n.read # NullTime /\ n.read < now

\* C7: the prune of mark_read(uid, notifs) deletes no row whose id is in notifs,
\* no row 30 days old or younger and no row of another user, and mark_read
\* without notifs deletes nothing.
C7_PruneSpares ==
    [][call'.op = "MarkRead" =>
        \A n \in Deleted :
            /\ call'.given
            /\ n.id \notin call'.notifs
            /\ OlderThanExpiry(n)
            /\ n.target = call'.uid]_vars

\* A prune that deleted a row and spared a row older than 30 days that was in
\* notifs.
C7_Witness ==
    /\ call.op = "MarkRead"
    /\ call.given
    /\ Cardinality(notifications) < nextId - 1
    /\ \E n \in notifications :
        n.target = call.uid /\ n.id \in call.notifs /\ OlderThanExpiry(n)

\* C8, as stated: whenever notifs is passed to mark_read(uid, notifs), an empty
\* list included, every row of uid older than 30 days whose id is not in it is
\* deleted by that call.
C8_PruneDeletesExpired ==
    [][(call'.op = "MarkRead" /\ call'.given) =>
        \A n \in notifications :
            (n.target = call'.uid /\ OlderThanExpiry(n) /\ n.id \notin call'.notifs)
                => n \in Deleted]_vars

\* The ids every first page get_notifications can return for uid now holds.
FreshFirstPage(uid) ==
    {n.id : n \in {m \in Selected(uid) :
                    \A s \in Orderings(Selected(uid)) :
                        m.id \in ResultIds(Enriched(uid, Paginate(s, 1)))}}

\* C9, as stated: mark_read(uid, notifs), with notifs the first page an earlier
\* get_notifications(uid, 1) returned, deletes no row that get_notifications(uid, 1)
\* would return at the moment of the delete.
C9_PruneSparesVisible ==
    [][(call'.op = "MarkRead" /\ call'.given /\ held.uid = call'.uid
            /\ held.ids = call'.notifs) =>
        \A n \in Deleted : n.id \notin FreshFirstPage(call'.uid)]_vars

\* C10: a stored row changes in nothing but read, which goes once from null to
\* a timestamp and then stays; its target is never null; rows appear only in
\* send and disappear only in the prune of mark_read.
C10_RowsImmutableButRead ==
    [][/\ \A n \in notifications : \A m \in notifications' :
            m.id = n.id =>
                /\ [m EXCEPT !.read = n.read] = n
                /\ n.read # NullTime => m.read = n.read
                /\ m.read # n.read => (m.read = now /\ call'.op = "MarkRead")
       /\ \A m \in notifications' : m.target # Null
       /\ RowIds(notifications') \ RowIds(notifications) # {} => call'.op = "Send"
       /\ Cardinality(RowIds(notifications') \ RowIds(notifications)) <= 1
       /\ Deleted # {} => (call'.op = "MarkRead" /\ call'.given)]_vars

\* A row created before now that mark_read has stamped, after a prune.
C10_Witness ==
    /\ call.op = "MarkRead"
    /\ Cardinality(notifications) < nextId - 1
    /\ \E n \in notifications : n.read # NullTime /\ n.created < n.read

\* C11, as stated: a send whose live-socket publish or push hand-off fails
\* swallows the failure and returns normally; it calls neither transport a
\* second time, and the row it created stays in the table.
C11_TransportFailureSwallowed ==
    [][call'.op = "Send" =>
        /\ raised' \notin {"SocketError", "PushError"}
        /\ Len(emitted') <= 1
        /\ Len(pushed') <= 1
        /\ emitted' # <<>> => \E n \in notifications' : n.id = call'.id]_vars

\* C12: when a user gains a SubMod row, a row of T's that was hidden from T by
\* blocking (reply or mention type, T blocks its sender S, neither an active
\* moderator of its sub, comment not soft-deleted) is, if the new SubMod row is
\* a non-invite row of S or of T on the row's sub, on some page of every list
\* get_notifications(T, page) can return from then on, with the Notification
\* table as it was; if the new SubMod row is an invite, the row stays off every
\* page.
C12_ModeratorLiftsHiding ==
    [][\A n \in notifications : \A m \in mods' \ mods :
        (HiddenByBlocking(n.target, n) /\ ~SoftDeleted(n)) =>
            /\ notifications' = notifications
            /\ (m.user \in {n.sender, n.target} /\ m.sub = n.sub /\ ~m.invite) =>
                    \A s \in Orderings(Selected(n.target))' :
                        \E page \in 1..MaxNotifs : n.id \in PageIds(Paginate(s, page))
            /\ m.invite => n \notin Selected(n.target)']_vars

\* The sender or the target of a reply has just become an active moderator of
\* its sub, the other is none, the target blocks the sender, and the reply is
\* selected for the target's list.
C12_Witness ==
    /\ call.op = "AddMod"
    /\ \E n \in notifications :
        /\ n.type \in ReplyTypes
        /\ n.sender # Null
        /\ [uid |-> n.target, target |-> n.sender] \in blocks
        /\ call.uid \in {n.sender, n.target}
        /\ ActiveModerator(call.uid, n.sub)
        /\ \A u \in {n.sender, n.target} \ {call.uid} : ~ActiveModerator(u, n.sub)
        /\ n \in Selected(n.target)

\* The creation time of the row with that id.
CreatedOf(id) == (CHOOSE n \in notifications : n.id = id).created

\* The rows of a returned page are in descending order of created.
Descending(r) ==
    \A i, j \in 1..Len(r) : i < j => CreatedOf(r[i].id) >= CreatedOf(r[j].id)

\* The smaller of two numbers.
Min(a, b) == IF a < b THEN a ELSE b

\* C13, as stated: get_notifications(uid, 1) and then get_notifications(uid, 2),
\* with nothing written in between, each return at most a page of rows in
\* descending order of created, the second page no newer than the first, no row
\* on both pages, and no row of uid's list within the first two pages missing
\* from both.
C13_PagesPartition ==
    [][(/\ call.op = "List" /\ call.page = 1
        /\ call'.op = "List" /\ call'.page = 2 /\ call'.uid = call.uid) =>
        /\ Len(result) <= PageSize /\ Len(result') <= PageSize
        /\ Descending(result) /\ Descending(result')
        /\ \A a \in ResultIds(result), b \in ResultIds(result') :
                CreatedOf(a) >= CreatedOf(b)
        /\ ResultIds(result) \cap ResultIds(result') = {}
        /\ Cardinality(ResultIds(result) \cup ResultIds(result'))
                = Min(Cardinality(Selected(call.uid)), 2 * PageSize)]_vars

\* C14: get_notifications(uid, page) returns no row whose related comment has a
\* non-null status; a row of uid with no related comment, or with a related
\* comment of null status, that blocking does not hide is returned on the page
\* its creation time puts it on.
C14_SoftDeletedNeverListed ==
    call.op = "List" =>
        /\ \A n \in notifications :
            (n.comment # Null /\ commentStatus[n.comment] # Null)
                => n.id \notin ResultIds(result)
        /\ \A n \in notifications :
            (/\ n.target = call.uid
             /\ (n.comment = Null \/ commentStatus[n.comment] = Null)
             /\ ~HiddenByBlocking(call.uid, n)
             /\ SurelyOnPage(call.uid, n, call.page))
                => n.id \in ResultIds(result)

\* A list that leaves out a row of the viewer whose comment is soft-deleted and
\* nothing else hides, and returns a row with no related comment.
C14_Witness ==
    /\ call.op = "List"
    /\ \E n \in notifications :
        n.target = call.uid /\ SoftDeleted(n) /\ ~HiddenByBlocking(call.uid, n)
    /\ \E n \in notifications : n.id \in ResultIds(result) /\ n.comment = Null

\* The unread rows of uid in the table after the step.
UnreadAfter(uid) ==
    Cardinality({n \in notifications' : n.target = uid /\ n.read = NullTime})

\* The one live-socket event send publishes for target with that count.
SocketEvent(target, count) ==
    [event |-> "notification", count |-> count, namespace |-> "/snt",
     room |-> <<"user", target>>]

\* Every entity the push text of the call reads is there: no id that resolves to
\* nothing and, for a reply or mention, no null sender, sub or post.
PushTextComposable(a) ==
    /\ a.sender \in Users \cup {Null}
    /\ a.sub \in Subs \cup {Null}
    /\ a.post \in Posts \cup {Null}
    /\ a.type \in ReplyTypes => (a.sender # Null /\ a.sub # Null /\ a.post # Null)

\* C15, as amended: a send the block check lets through publishes exactly one
\* live-socket 'notification' event, to the room of the recipient, carrying the
\* recipient's unread count; it hands a push message to the push service if and
\* only if a push service is configured, the socket publish did not raise and
\* the push text can be composed; that message has the recipient as topic and
\* the same unread count; with no push service configured nothing is pushed and
\* no sender, sub or post is looked up.
C15_DispatchPayloads ==
    [][(/\ call'.op = "Send" /\ raised' # "StoreError"
        /\ ~BlockApplies(call'.args.target, call'.args.sender, call'.args.sub)) =>
        LET a == call'.args
        IN  /\ emitted' = <<SocketEvent(a.target, UnreadAfter(a.target))>>
            /\ (pushed' # <<>>) <=>
                    (pushService /\ raised' # "SocketError" /\ PushTextComposable(a))
            /\ pushed' # <<>> =>
                    /\ Len(pushed') = 1
                    /\ pushed'[1].topic_name = a.target
                    /\ pushed'[1].data_message.notificationCount = UnreadAfter(a.target)
            /\ ~pushService => (pushed' = <<>> /\ looked' = <<>>)]_vars

\* A send that published the event and pushed the message, both with the count
\* of two unread rows, after looking up its sender, sub and post.
C15_Witness ==
    /\ SendReturned
    /\ pushService
    /\ Len(emitted) = 1
    /\ Len(pushed) = 1
    /\ emitted[1].count = 2
    /\ pushed[1].data_message.notificationCount = 2
    /\ Len(looked) = 3

\* C15, as stated: with the transports up, a send the block check lets through
\* publishes that one event and hands that push message to the push service if
\* and only if a push service is configured.
C15_Original ==
    [][(/\ call'.op = "Send"
        /\ raised' \notin {"StoreError", "SocketError", "PushError"}
        /\ ~BlockApplies(call'.args.target, call'.args.sender, call'.args.sub)) =>
        LET a == call'.args
        IN  /\ emitted' = <<SocketEvent(a.target, UnreadAfter(a.target))>>
            /\ (pushed' # <<>>) <=> pushService
            /\ pushed' # <<>> =>
                    /\ pushed'[1].topic_name = a.target
                    /\ pushed'[1].data_message.notificationCount = UnreadAfter(a.target)
            /\ ~pushService => looked' = <<>>]_vars

\* C16: a send the block check lets through, with a push service configured, a
\* type outside the reply and mention types and a sender, sub and post each null
\* or existing, raises nothing of its own (no DoesNotExist, no AttributeError)
\* and, unless the socket publish raised, hands the push service one message
\* with the generic title and body.
C16_FallbackTextNeverRaises ==
    [][(/\ call'.op = "Send" /\ raised' # "StoreError"
        /\ pushService
        /\ ~BlockApplies(call'.args.target, call'.args.sender, call'.args.sub)
        /\ call'.args.type \notin ReplyTypes
        /\ call'.args.sender \in Users \cup {Null}
        /\ call'.args.sub \in Subs \cup {Null}
        /\ call'.args.post \in Posts \cup {Null}) =>
        /\ raised' \in {"none", "SocketError", "PushError"}
        /\ raised' # "SocketError" =>
            /\ Len(pushed') = 1
            /\ pushed'[1].data_message.title = <<"New notification.">>
            /\ pushed'[1].data_message.body = <<"nobody bothered to code the message">>]_vars

\* A send of a type with no text of its own and null sender, sub and post that
\* pushed its message and returned.
C16_Witness ==
    /\ SendReturned
    /\ pushService
    /\ call.args.type \notin ReplyTypes
    /\ call.args.sender = Null /\ call.args.sub = Null /\ call.args.post = Null
    /\ Len(pushed) = 1
    /\ raised = "none"

\* C17: a send the block check lets through, with a push service configured and
\* a sender, sub or post the push text needs missing (an id that resolves to
\* nothing, or a reply or mention with one of the three null), ends with an
\* error, hands nothing to the push service and leaves the row it created in
\* the table.
C17_MissingEntityFailsFast ==
    [][(/\ call'.op = "Send" /\ raised' # "StoreError"
        /\ pushService
        /\ ~BlockApplies(call'.args.target, call'.args.sender, call'.args.sub)
        /\ ~PushTextComposable(call'.args)) =>
        /\ raised' \in {"DoesNotExist", "AttributeError", "SocketError"}
        /\ pushed' = <<>>
        /\ \E n \in notifications' :
            n.id = call'.id /\ n.read = NullTime /\ n \notin notifications]_vars

\* A send of a type with no text of its own that failed on a sub id resolving
\* to nothing, its row in the table.
C17_Witness ==
    /\ call.op = "Send"
    /\ pushService
    /\ call.args.type \notin ReplyTypes
    /\ call.args.sub \notin Subs \cup {Null}
    /\ raised = "DoesNotExist"
    /\ pushed = <<>>
    /\ \E n \in notifications : n.id = call.id

\* The row of the table with that id.
RowOf(id) == CHOOSE n \in notifications : n.id = id

\* C18: in every row get_notifications(uid, page) returns, post_positive is the
\* direction of uid's SubPostVote on the row's post and comment_positive that
\* of uid's SubPostCommentVote on the row's comment; each is null when uid has
\* no such vote or the row has no post or comment, whatever other users voted.
C18_VotesAreTheViewers ==
    call.op = "List" =>
        \A i \in 1..Len(result) :
            LET r == result[i]
                n == RowOf(r.id)
                pv == {v \in postVotes : v.uid = call.uid /\ v.pid = n.post}
                cv == {v \in commentVotes : v.uid = call.uid /\ v.cid = n.comment}
            IN  /\ \A v \in pv : r.post_positive = v.positive
                /\ \A v \in cv : r.comment_positive = v.positive
                /\ (n.post = Null \/ pv = {}) => r.post_positive = Null
                /\ (n.comment = Null \/ cv = {}) => r.comment_positive = Null

\* A returned row with the viewer's upvote on its post and no vote of the
\* viewer on its comment, where another user voted the post down and voted on
\* the comment.
C18_Witness ==
    /\ call.op = "List"
    /\ \E i \in 1..Len(result) :
        /\ result[i].post_positive = "True"
        /\ result[i].comment_positive = Null
        /\ RowOf(result[i].id).comment # Null
        /\ \E v \in postVotes :
            v.uid # call.uid /\ v.pid = RowOf(result[i].id).post /\ v.positive = "False"
        /\ \E v \in commentVotes :
            v.uid # call.uid /\ v.cid = RowOf(result[i].id).comment

\* C19: get_notifications(uid, page) for a page past the last page of the rows
\* selected for uid returns an empty list and raises nothing: the votes query
\* runs over no ids and the merge over no rows.
C19_PagePastEndIsEmpty ==
    (call.op = "List" /\ (call.page - 1) * PageSize >= Cardinality(Selected(call.uid))) =>
        /\ result = <<>>
        /\ raised = "none"
        /\ DOMAIN VotesById(call.uid, ResultIds(result)) = {}

\* A second page asked of a viewer whose rows all fit on the first.
C19_Witness ==
    /\ call.op = "List"
    /\ call.page = 2
    /\ Selected(call.uid) # {}
    /\ Cardinality(Selected(call.uid)) <= PageSize
    /\ result = <<>>
    /\ raised = "none"

\* C20, as stated: whatever send and mark_read other workers run between the
\* two queries of a get_notifications(uid, page), with every statement atomic,
\* that get_notifications ends without an error and returns the page its first
\* query selected.
C20_ListNeverFails ==
    [][(listing # NotListing /\ listing' = NotListing) =>
        /\ call'.op = "List"
        /\ raised' = "none"
        /\ ResultIds(result') = PageIds(listing.rows)]_vars

====
